---- MODULE Spec2Model ----
(***************************************************************************)
(* Lexigon: the puzzle engine of src/lexigon/game.py (Wordlist, Lexigon,   *)
(* PrefixTree, Moves, Hint, GameState) and the GameManager handlers of     *)
(* src/lexigon/ui.py that hold one GameState and replace it.               *)
(*                                                                         *)
(* A Python str is a sequence of one-character strings: "abcd" is          *)
(* <<"a","b","c","d">>.  A call's outcome is a record [err, state]: err is *)
(* "none" when the call returned, else the tag of the raise site.          *)
(***************************************************************************)
EXTENDS Integers, Sequences, FiniteSets, TLC

VARIABLES state, op, err

vars == <<state, op, err>>

(***************************************************************************)
(* Program constants.                                                      *)
(***************************************************************************)
NUM_OPTIONAL_LETTERS == 6
MIN_WORD_LENGTH == 4
ISOGRAM_BONUS == 10
MAX_POINTS == 50

(***************************************************************************)
(* Bounds of the model.                                                    *)
(***************************************************************************)
\* length of the shorter long word of the "cap" wordlist
LongLen == 24
\* at most this many penalties are recorded within one puzzle
MaxHints == 5

(***************************************************************************)
(* Helpers over sequences and sets.                                        *)
(***************************************************************************)
RECURSIVE SumSeq(_)
SumSeq(s) == IF s = <<>> THEN 0 ELSE Head(s) + SumSeq(Tail(s))

Min(a, b) == IF a <= b THEN a ELSE b

Chars(word) == {word[i] : i \in DOMAIN word}

IsPrefix(p, w) == Len(p) <= Len(w) /\ SubSeq(w, 1, Len(p)) = p

Prefixes(w) == {SubSeq(w, 1, n) : n \in 0..Len(w)}

\* the word of length n that cycles through the letters of w
Cycle(w, n) == [i \in 1..n |-> w[((i - 1) % Len(w)) + 1]]

\* w rotated left by k places
Rot(w, k) == [i \in 1..Len(w) |-> w[((i - 1 + k) % Len(w)) + 1]]

(***************************************************************************)
(* Outcomes of a call.                                                     *)
(***************************************************************************)
Return(s) == [err |-> "none", state |-> s]

Raise(e, s) == [err |-> e, state |-> s]

\* the ValueError raise sites of Lexigon.solve and GameState.add_letter
ValidationErrors ==
    {"MissingMandatoryLetter", "DisallowedLetter", "NotInWordlist", "TooShort",
     "NotSingleCharacter"}

\* every raise site that raises ValueError
ValueErrors == ValidationErrors \cup {"DuplicateMoveError", "InsufficientPointsError"}

(***************************************************************************)
(* Wordlist                                                                *)
(***************************************************************************)
\* mutant of IsIsogram: the length of the word is not checked
IsIsogram_any_length(word) == Cardinality(Chars(word)) = Len(word)

IsIsogram(word) ==
    /\ Cardinality(Chars(word)) = Len(word)
    /\ Len(word) = NUM_OPTIONAL_LETTERS + 1

Wordlist_make(words) ==
    [words |-> words, isograms |-> {word \in words : IsIsogram(word)}]

Wordlist_contains(wl, word) == word \in wl.words

(***************************************************************************)
(* Lexigon                                                                 *)
(***************************************************************************)
Lexigon(mandatory_letter, optional_letters, word_list) ==
    [mandatory_letter |-> mandatory_letter,
     optional_letters |-> optional_letters,
     word_list        |-> word_list]

\* the check of __post_init__ that fails, "none" when all pass.  The letters
\* of a Lexigon are elements of a str, each a single character, so only the
\* third check can fail.
Lexigon_post_init(lex) ==
    IF lex.mandatory_letter \in Chars(lex.optional_letters)
    THEN "MandatoryInOptional"
    ELSE "none"

Allowed(lex) == Chars(lex.optional_letters) \cup {lex.mandatory_letter}

\* mutant of evaluate: a word of MIN_WORD_LENGTH letters scores nothing
evaluate_from_zero(lex, word) ==
    IF word \in lex.word_list.isograms
    THEN ISOGRAM_BONUS
    ELSE Len(word) - MIN_WORD_LENGTH

evaluate(lex, word) ==
    IF word \in lex.word_list.isograms
    THEN ISOGRAM_BONUS
    ELSE Len(word) - MIN_WORD_LENGTH + 1

\* mutant of solve_error: the length is checked first
solve_error_length_first(lex, word) ==
    IF Len(word) < MIN_WORD_LENGTH THEN "TooShort"
    ELSE IF lex.mandatory_letter \notin Chars(word) THEN "MissingMandatoryLetter"
    ELSE IF ~(\A i \in DOMAIN word : word[i] \in Allowed(lex)) THEN "DisallowedLetter"
    ELSE IF ~Wordlist_contains(lex.word_list, word) THEN "NotInWordlist"
    ELSE "none"

\* the check of solve that fails first, "none" when all four pass
solve_error(lex, word) ==
    IF lex.mandatory_letter \notin Chars(word) THEN "MissingMandatoryLetter"
    ELSE IF ~(\A i \in DOMAIN word : word[i] \in Allowed(lex)) THEN "DisallowedLetter"
    ELSE IF ~Wordlist_contains(lex.word_list, word) THEN "NotInWordlist"
    ELSE IF Len(word) < MIN_WORD_LENGTH THEN "TooShort"
    ELSE "none"

solve(lex, word) == evaluate(lex, word)

possible_words(lex) == {w \in lex.word_list.words : solve_error(lex, w) = "none"}

RECURSIVE SumEvaluate(_, _)
SumEvaluate(lex, S) ==
    IF S = {} THEN 0
    ELSE LET w == CHOOSE x \in S : TRUE
         IN  evaluate(lex, w) + SumEvaluate(lex, S \ {w})

Lexigon_max_points(lex) == SumEvaluate(lex, possible_words(lex))

\* the outcomes of random.shuffle that are enumerated: three rotations of the
\* picked isogram, which make its first, fifth and seventh letter mandatory
ShuffleOffsets == {0, 4, 6}

Shuffles(word) == {Rot(word, k) : k \in ShuffleOffsets}

\* mutant of generate_from_word_list: the optional letters are the whole
\* shuffled word, the mandatory letter included
generate_from_word_list_keeps_first(word_list) ==
    {Lexigon(Head(picked), picked, word_list) :
        picked \in UNION {Shuffles(w) : w \in word_list.isograms}}

generate_from_word_list(word_list) ==
    {Lexigon(Head(picked), Tail(picked), word_list) :
        picked \in UNION {Shuffles(w) : w \in word_list.isograms}}

(***************************************************************************)
(* PrefixTree                                                              *)
(***************************************************************************)
PrefixTree(children, level) == [children |-> children, level |-> level]

RECURSIVE PrefixTree_insert(_, _)

\* mutant of PrefixTree_insert: the new node keeps only the child it
\* descended into and drops its siblings
PrefixTree_insert_drop_siblings(self, rest) ==
    IF Len(rest) = 0 THEN self
    ELSE LET curr   == Head(rest)
             rest1  == Tail(rest)
             child0 == IF curr \in DOMAIN self.children
                       THEN self.children[curr]
                       ELSE PrefixTree(<<>>, self.level + 1)
             child  == PrefixTree_insert(child0, rest1)
         IN  PrefixTree([c \in {curr} |-> child], self.level)

PrefixTree_insert(self, rest) ==
    IF Len(rest) = 0 THEN self
    ELSE LET curr   == Head(rest)
             rest1  == Tail(rest)
             child0 == IF curr \in DOMAIN self.children
                       THEN self.children[curr]
                       ELSE PrefixTree(<<>>, self.level + 1)
             child  == PrefixTree_insert(child0, rest1)
         IN  PrefixTree([c \in (DOMAIN self.children) \cup {curr} |->
                            IF c = curr THEN child ELSE self.children[c]],
                        self.level)

RECURSIVE PrefixTree_contains(_, _)
\* mutant of PrefixTree_contains: the root does not contain the empty string
PrefixTree_contains_nonempty(self, rest) ==
    IF Len(rest) = 0 THEN self.level > 0
    ELSE LET curr  == Head(rest)
             rest1 == Tail(rest)
         IN  IF curr \in DOMAIN self.children
             THEN PrefixTree_contains(self.children[curr], rest1)
             ELSE FALSE

PrefixTree_contains(self, rest) ==
    IF Len(rest) = 0 THEN TRUE
    ELSE LET curr  == Head(rest)
             rest1 == Tail(rest)
         IN  IF curr \in DOMAIN self.children
             THEN PrefixTree_contains(self.children[curr], rest1)
             ELSE FALSE

(***************************************************************************)
(* Move, Moves                                                             *)
(***************************************************************************)
Move(word, points) == [word |-> word, points |-> points]

Moves(moves, tree) == [moves |-> moves, tree |-> tree]

\* mutant of Moves_contains: only a recorded word itself is contained
Moves_contains_exact(self, word) ==
    \E i \in DOMAIN self.moves : self.moves[i].word = word

Moves_contains(self, word) == PrefixTree_contains(self.tree, word)

\* mutant of Moves_insert: the word is not inserted into the tree
Moves_insert_no_tree(self, move) == Moves(Append(self.moves, move), self.tree)

Moves_insert(self, move) ==
    Moves(Append(self.moves, move), PrefixTree_insert(self.tree, move.word))

(***************************************************************************)
(* Hint                                                                    *)
(***************************************************************************)
Hint(word, revealed) == [word |-> word, revealed |-> revealed]

\* mutant of Hint_exhausted: a fully revealed hint does not count as exhausted
Hint_exhausted_strict(h) == h.revealed > Len(h.word)

Hint_exhausted(h) == h.revealed >= Len(h.word)

Hint_next(h) == Hint(h.word, h.revealed + 1)

Hint_repr(h) == SubSeq(h.word, 1, Min(h.revealed, Len(h.word)))

(***************************************************************************)
(* GameState                                                               *)
(***************************************************************************)
create_from_lexigon(lexigon) ==
    [candidate  |-> <<>>,
     lexigon    |-> lexigon,
     moves      |-> Moves(<<>>, PrefixTree(<<>>, 0)),
     max_points |-> Min(Lexigon_max_points(lexigon), MAX_POINTS),
     hint       |-> Hint(<<>>, 0),
     penalties  |-> <<>>]

create_from_wordlist(wordlist) ==
    {create_from_lexigon(lex) : lex \in generate_from_word_list(wordlist)}

current_points(self) ==
    SumSeq([i \in DOMAIN self.moves.moves |-> self.moves.moves[i].points])

completed(self) == current_points(self) >= self.max_points

leftover_words(self) ==
    {w \in possible_words(self.lexigon) : ~Moves_contains(self.moves, w)}

total_penalty(self) == SumSeq(self.penalties)

add_letter(self, letter) ==
    IF Len(letter) # 1
    THEN Raise("NotSingleCharacter", self)
    ELSE Return([self EXCEPT !.candidate = self.candidate \o letter])

\* the outcomes of random.choice over leftover_words; none when it is empty
new_hint(self) == {Hint(w, 0) : w \in leftover_words(self)}

\* mutant of advance_hint: the check reads the penalties before this hint
advance_hint_old_total(self, base) ==
    LET hint      == Hint_next(base)
        penalties == Append(self.penalties, hint.revealed)
    IN  IF current_points(self) - SumSeq(self.penalties) < 0
        THEN Raise("InsufficientPointsError", self)
        ELSE Return([self EXCEPT !.hint = hint, !.penalties = penalties])

\* mutant of advance_hint: every revealed letter costs one point
advance_hint_flat_cost(self, base) ==
    LET hint      == Hint_next(base)
        penalties == Append(self.penalties, 1)
    IN  IF current_points(self) - SumSeq(penalties) < 0
        THEN Raise("InsufficientPointsError", self)
        ELSE Return([self EXCEPT !.hint = hint, !.penalties = penalties])

\* request_hint once the hint to advance (the current one, or the new
\* target) is known
advance_hint(self, base) ==
    LET hint      == Hint_next(base)
        penalties == Append(self.penalties, hint.revealed)
    IN  IF current_points(self) - SumSeq(penalties) < 0
        THEN Raise("InsufficientPointsError", self)
        ELSE Return([self EXCEPT !.hint = hint, !.penalties = penalties])

\* mutant of request_hint: every call picks a new target
request_hint_always_new(self) ==
    IF new_hint(self) = {}
    THEN {Raise("IndexError", self)}
    ELSE {advance_hint(self, h) : h \in new_hint(self)}

\* the set of outcomes of request_hint
request_hint(self) ==
    IF Hint_exhausted(self.hint)
    THEN IF new_hint(self) = {}
         THEN {Raise("IndexError", self)}
         ELSE {advance_hint(self, h) : h \in new_hint(self)}
    ELSE {advance_hint(self, self.hint)}

\* mutant of add_move: the recomputed max_points is not capped at MAX_POINTS
add_move_uncapped(self) ==
    IF Moves_contains(self.moves, self.candidate)
    THEN Raise("DuplicateMoveError", self)
    ELSE IF solve_error(self.lexigon, self.candidate) # "none"
    THEN Raise(solve_error(self.lexigon, self.candidate), self)
    ELSE Return([self EXCEPT
            !.moves      = Moves_insert(self.moves,
                               Move(self.candidate,
                                    solve(self.lexigon, self.candidate))),
            !.candidate  = <<>>,
            !.hint       = Hint(<<>>, 0),
            !.max_points = SumEvaluate(self.lexigon, leftover_words(self))])

\* mutant of add_move: max_points is summed over the words left after the move
add_move_leftover_after(self) ==
    IF Moves_contains(self.moves, self.candidate)
    THEN Raise("DuplicateMoveError", self)
    ELSE IF solve_error(self.lexigon, self.candidate) # "none"
    THEN Raise(solve_error(self.lexigon, self.candidate), self)
    ELSE LET moves == Moves_insert(self.moves,
                          Move(self.candidate,
                               solve(self.lexigon, self.candidate)))
         IN  Return([self EXCEPT
                !.moves      = moves,
                !.candidate  = <<>>,
                !.hint       = Hint(<<>>, 0),
                !.max_points =
                    Min(SumEvaluate(self.lexigon,
                            leftover_words([self EXCEPT !.moves = moves])),
                        MAX_POINTS)])

\* mutant of add_move: the hint is kept over a found word
add_move_keeps_hint(self) ==
    IF Moves_contains(self.moves, self.candidate)
    THEN Raise("DuplicateMoveError", self)
    ELSE IF solve_error(self.lexigon, self.candidate) # "none"
    THEN Raise(solve_error(self.lexigon, self.candidate), self)
    ELSE Return([self EXCEPT
            !.moves      = Moves_insert(self.moves,
                               Move(self.candidate,
                                    solve(self.lexigon, self.candidate))),
            !.candidate  = <<>>,
            !.max_points = Min(SumEvaluate(self.lexigon, leftover_words(self)),
                               MAX_POINTS)])

\* mutant of add_move: a found word clears the penalties
add_move_clears_penalties(self) ==
    IF Moves_contains(self.moves, self.candidate)
    THEN Raise("DuplicateMoveError", self)
    ELSE IF solve_error(self.lexigon, self.candidate) # "none"
    THEN Raise(solve_error(self.lexigon, self.candidate), self)
    ELSE Return([self EXCEPT
            !.moves      = Moves_insert(self.moves,
                               Move(self.candidate,
                                    solve(self.lexigon, self.candidate))),
            !.candidate  = <<>>,
            !.hint       = Hint(<<>>, 0),
            !.penalties  = <<>>,
            !.max_points = Min(SumEvaluate(self.lexigon, leftover_words(self)),
                               MAX_POINTS)])

add_move(self) ==
    IF Moves_contains(self.moves, self.candidate)
    THEN Raise("DuplicateMoveError", self)
    ELSE IF solve_error(self.lexigon, self.candidate) # "none"
    THEN Raise(solve_error(self.lexigon, self.candidate), self)
    ELSE Return([self EXCEPT
            !.moves      = Moves_insert(self.moves,
                               Move(self.candidate,
                                    solve(self.lexigon, self.candidate))),
            !.candidate  = <<>>,
            !.hint       = Hint(<<>>, 0),
            !.max_points = Min(SumEvaluate(self.lexigon, leftover_words(self)),
                               MAX_POINTS)])

\* mutant of reset: the new state keeps the penalties of the old one
reset_keeps_penalties(self) ==
    {[create_from_lexigon(lex) EXCEPT !.penalties = self.penalties] :
        lex \in generate_from_word_list(self.lexigon.word_list)}

reset(self) ==
    {create_from_lexigon(lex) :
        lex \in generate_from_word_list(self.lexigon.word_list)}

(***************************************************************************)
(* The wordlists that are loaded, and the strings that are typed.          *)
(***************************************************************************)
IsoSmall == <<"a", "b", "c", "d", "e", "f", "g">>
IsoCap   == <<"b", "c", "d", "e", "f", "g", "h">>
IsoLone  == <<"a", "b", "c", "d", "e", "f", "h">>

SmallWords ==
    {IsoSmall,
     <<"a", "b", "c", "d">>,
     <<"a", "b", "c", "d", "e", "f">>,
     <<"a", "b", "c">>,
     <<"a", "b", "c", "h">>,
     <<"g", "f", "e", "d">>,
     <<"g", "f", "e", "e">>}

CapWords == {IsoCap, IsoLone, Cycle(IsoCap, LongLen), Cycle(IsoCap, LongLen + 1)}

\* load_wordlists: one Wordlist per file
wordlists == [key \in {"small", "cap"} |->
                 IF key = "small" THEN Wordlist_make(SmallWords)
                                  ELSE Wordlist_make(CapWords)]

\* the candidates that are typed: the prefixes of the words of the loaded
\* wordlist of the puzzle
Typed(self) == UNION {Prefixes(w) : w \in self.lexigon.word_list.words}

\* the arguments given to add_letter: every letter, and two strings that
\* are not single characters
LetterInputs ==
    {<<c>> : c \in UNION {Chars(w) : w \in SmallWords \cup CapWords}}
        \cup {<<>>, <<"a", "b">>}

(***************************************************************************)
(* Specification of the core: GameState and its transitions.               *)
(***************************************************************************)
Init ==
    /\ \E key \in DOMAIN wordlists : state \in create_from_wordlist(wordlists[key])
    /\ op = "create_from_wordlist"
    /\ err = "none"

AddLetter ==
    \E letter \in LetterInputs :
        /\ state.candidate \o letter \in Typed(state)
        /\ LET r == add_letter(state, letter)
           IN  /\ state' = r.state
               /\ err' = r.err
        /\ op' = "add_letter"

AddMove ==
    /\ LET r == add_move(state)
       IN  /\ state' = r.state
           /\ err' = r.err
    /\ op' = "add_move"

RequestHint ==
    /\ Len(state.penalties) < MaxHints
    /\ \E r \in request_hint(state) :
           /\ state' = r.state
           /\ err' = r.err
    /\ op' = "request_hint"

Reset ==
    /\ state' \in reset(state)
    /\ err' = "none"
    /\ op' = "reset"

Next == AddLetter \/ AddMove \/ RequestHint \/ Reset

Spec == Init /\ [][Next]_vars

(***************************************************************************)
(* Specification of the presentation boundary: the GameManager handlers,   *)
(* which hold one GameState in `state` and replace it.                     *)
(***************************************************************************)
\* mutant of ButtonTexts: the buttons are not rendered anew for the Lexigon of
\* the held state and show the letters of every loaded wordlist
ButtonTexts_stale(self) ==
    {<<c>> : c \in UNION {Chars(w) : w \in SmallWords \cup CapWords}}

\* the texts of the letter buttons LexigonView renders for the held state
ButtonTexts(self) == {<<c>> : c \in Allowed(self.lexigon)}

UpdateCandidate ==
    \E letter \in ButtonTexts(state) :
        /\ state.candidate \o letter \in Typed(state)
        /\ LET r == add_letter(state, letter)
           IN  /\ state' = r.state
               /\ err' = r.err
        /\ op' = "update_candidate"

\* mutant of SubmitCandidate: a failed submission keeps the candidate
SubmitCandidate_keeps_candidate ==
    LET r == add_move(state)
    IN  IF r.err = "none"
        THEN IF completed(r.state)
             THEN /\ state' \in reset(r.state)
                  /\ err' = "none"
                  /\ op' = "win"
             ELSE /\ state' = r.state
                  /\ err' = "none"
                  /\ op' = "submit_candidate"
        ELSE /\ state' = state
             /\ err' = r.err
             /\ op' = "submit_candidate"

\* mutant of SubmitCandidate: a completing submission does not call win
SubmitCandidate_no_win ==
    LET r == add_move(state)
    IN  IF r.err = "none"
        THEN /\ state' = r.state
             /\ err' = "none"
             /\ op' = "submit_candidate"
        ELSE /\ state' = IF r.err \in ValueErrors
                         THEN [state EXCEPT !.candidate = <<>>]
                         ELSE state
             /\ err' = r.err
             /\ op' = "submit_candidate"

SubmitCandidate ==
    LET r == add_move(state)
    IN  IF r.err = "none"
        THEN IF completed(r.state)
             THEN /\ state' \in reset(r.state)
                  /\ err' = "none"
                  /\ op' = "win"
             ELSE /\ state' = r.state
                  /\ err' = "none"
                  /\ op' = "submit_candidate"
        ELSE /\ state' = IF r.err \in ValueErrors
                         THEN [state EXCEPT !.candidate = <<>>]
                         ELSE state
             /\ err' = r.err
             /\ op' = "submit_candidate"

ManagerRequestHint ==
    /\ Len(state.penalties) < MaxHints
    /\ \E r \in request_hint(state) :
           /\ state' = IF r.err = "none" THEN r.state ELSE state
           /\ err' = r.err
    /\ op' = "request_hint"

ManagerReset ==
    /\ state' \in reset(state)
    /\ err' = "none"
    /\ op' = "reset"

SelectWordlist ==
    \E wordlist_key \in DOMAIN wordlists \cup {"missing"} :
        /\ IF wordlist_key \notin DOMAIN wordlists
           THEN state' = state
           ELSE state' \in create_from_wordlist(wordlists[wordlist_key])
        /\ err' = "none"
        /\ op' = "select_wordlist"

UINext ==
    \/ UpdateCandidate
    \/ SubmitCandidate
    \/ ManagerRequestHint
    \/ ManagerReset
    \/ SelectWordlist

UISpec == Init /\ [][UINext]_vars

(***************************************************************************)
(* Properties.                                                             *)
(***************************************************************************)
\* the revealed count of the hint a request_hint on self would produce
NextRevealed(self) ==
    IF Hint_exhausted(self.hint) THEN 1 ELSE self.hint.revealed + 1

EffectiveScore(self) == current_points(self) - total_penalty(self)

\* C1: hint safety.  In every state reachable in the core, current_points -
\* total_penalty >= 0; and a request_hint whose projected total penalty (the
\* old penalties plus the revealed count of the advanced hint) exceeds
\* current_points raises InsufficientPointsError and leaves hint and
\* penalties as they were.
C1_HintSafety ==
    /\ EffectiveScore(state) >= 0
    /\ [][/\ EffectiveScore(state') >= 0
          /\ (/\ op' = "request_hint"
              /\ total_penalty(state) + NextRevealed(state) > current_points(state))
             => /\ err' = "InsufficientPointsError"
                /\ state'.hint = state.hint
                /\ state'.penalties = state.penalties]_vars

\* a request_hint was refused although points had been earned and spent
C1_Witness ==
    /\ op = "request_hint"
    /\ err = "InsufficientPointsError"
    /\ current_points(state) > 0
    /\ state.penalties # <<>>

\* C2: monotonicity of the cap.  Every add_letter, add_move and request_hint
\* leaves max_points no larger than it was, and max_points <= MAX_POINTS in
\* every state (also in the one a reset creates).
C2_CapMonotone ==
    /\ state.max_points <= MAX_POINTS
    /\ [][/\ state'.max_points <= MAX_POINTS
          /\ op' \in {"add_letter", "add_move", "request_hint"}
             => state'.max_points <= state.max_points]_vars

\* a successful add_move lowered the cap of a puzzle worth more than
\* MAX_POINTS below MAX_POINTS
C2_Witness ==
    /\ op = "add_move"
    /\ err = "none"
    /\ Lexigon_max_points(state.lexigon) > MAX_POINTS
    /\ state.max_points < MAX_POINTS

\* the words recorded in the moves ledger
MoveWords(self) == {self.moves.moves[i].word : i \in DOMAIN self.moves.moves}

IsProperPrefix(p, w) == IsPrefix(p, w) /\ Len(p) < Len(w)

\* every prefix of a recorded word, the empty string included
MovePrefixes(self) == {<<>>} \cup UNION {Prefixes(w) : w \in MoveWords(self)}

Alphabet == UNION {Chars(w) : w \in SmallWords \cup CapWords}

\* every prefix of every word of the loaded wordlists
AllTyped == UNION {Prefixes(w) : w \in SmallWords \cup CapWords}

\* C3: in every reachable state max_points is at most the sum of evaluate(w)
\* over that state's leftover_words.
C3_CapWithinLeftover ==
    state.max_points <= SumEvaluate(state.lexigon, leftover_words(state))

\* C4: no reachable state that is not completed is left without an
\* acceptable word (a word of leftover_words), so that completion stays
\* reachable by add_letter and add_move alone.
C4_NeverStuck == ~completed(state) => leftover_words(state) # {}

MovesDistinct(self) ==
    \A i, j \in DOMAIN self.moves.moves :
        i # j => self.moves.moves[i].word # self.moves.moves[j].word

\* C5: duplicate rejection.  An add_move whose candidate is a word already
\* recorded raises DuplicateMoveError and leaves the ledger as it was; the
\* recorded words are pairwise distinct in every state.
C5_DuplicateRejected ==
    /\ MovesDistinct(state)
    /\ [][/\ MovesDistinct(state')
          /\ (op' = "add_move" /\ state.candidate \in MoveWords(state))
             => /\ err' = "DuplicateMoveError"
                /\ state'.moves = state.moves]_vars

\* a recorded word was submitted again and refused
C5_Witness ==
    /\ op = "add_move"
    /\ err = "DuplicateMoveError"
    /\ state.candidate \in MoveWords(state)

\* C6 as stated: once w is recorded, every possible word that extends w (has
\* w as a proper prefix) is contained in the ledger, hence refused as a
\* duplicate.
C6_ExtensionReportedUsed ==
    \A w \in MoveWords(state) :
        \A v \in possible_words(state.lexigon) :
            IsProperPrefix(w, v) => Moves_contains(state.moves, v)

\* C6 amended: the direction is the reverse.  An add_move whose candidate is
\* a proper prefix of a recorded word is contained in the ledger and raises
\* DuplicateMoveError, recording nothing; a possible word that is not a
\* prefix of any recorded word (one that extends a recorded word included)
\* is not contained and is accepted.
C6_PrefixReportedUsed ==
    [][op' = "add_move" =>
        /\ (\E w \in MoveWords(state) : IsProperPrefix(state.candidate, w))
           => /\ Moves_contains(state.moves, state.candidate)
              /\ err' = "DuplicateMoveError"
              /\ state'.moves = state.moves
        /\ (/\ state.candidate \in possible_words(state.lexigon)
            /\ \A w \in MoveWords(state) : ~IsPrefix(state.candidate, w))
           => /\ ~Moves_contains(state.moves, state.candidate)
              /\ err' = "none"
              /\ state'.moves.moves =
                     Append(state.moves.moves,
                            Move(state.candidate,
                                 evaluate(state.lexigon, state.candidate)))]_vars

\* a possible word that is a proper prefix of a recorded word was refused
C6_Witness ==
    /\ op = "add_move"
    /\ err = "DuplicateMoveError"
    /\ state.candidate \in possible_words(state.lexigon)
    /\ \E w \in MoveWords(state) : IsProperPrefix(state.candidate, w)

\* the strings spelled by the paths from the root of a tree
RECURSIVE Paths(_)
Paths(tree) ==
    {<<>>} \cup UNION {{<<c>> \o p : p \in Paths(tree.children[c])} :
                          c \in DOMAIN tree.children}

\* C7: ledger invariant.  The strings the ledger contains are exactly the
\* prefixes of the recorded words: the paths of the tree spell exactly these
\* prefixes, contains is true of each of them, and among the strings that
\* can be typed contains is true of these prefixes only.
C7_LedgerIsPrefixSet ==
    LET recorded == MovePrefixes(state)
    IN  /\ Paths(state.moves.tree) = recorded
        /\ \A p \in recorded : Moves_contains(state.moves, p)
        /\ \A s \in AllTyped \ recorded : ~Moves_contains(state.moves, s)

\* two recorded words share their first letters and then part
C7_Witness ==
    \E v, w \in MoveWords(state) :
        /\ v[1] = w[1]
        /\ ~IsPrefix(v, w)
        /\ ~IsPrefix(w, v)

\* C8: every call returns or raises one of the errors of the taxonomy
\* (ValidationError, DuplicateMoveError, InsufficientPointsError).
C8_ErrorTaxonomy == err \in {"none"} \cup ValueErrors

\* C9: all-or-nothing at the presentation boundary.  After a submission that
\* failed the held state is the one before with the candidate emptied; after
\* a request_hint that failed the held state is the one before.
C9_FailureKeepsState ==
    [][/\ (op' = "submit_candidate" /\ err' # "none")
          => state' = [state EXCEPT !.candidate = <<>>]
       /\ (op' = "request_hint" /\ err' # "none")
          => state' = state]_vars

\* a submission failed while a word was recorded, a hint was showing and a
\* penalty had been paid
C9_Witness ==
    /\ op = "submit_candidate"
    /\ err \in ValidationErrors
    /\ state.candidate = <<>>
    /\ Len(state.moves.moves) > 0
    /\ state.hint.revealed > 0
    /\ state.penalties # <<>>

\* C10: completion leads to reset.  The state the GameManager holds is never
\* completed; a submission whose add_move returns a completed state calls
\* win, which replaces it by a fresh state on the same Wordlist.
C10_CompletionResets ==
    /\ ~completed(state)
    /\ [][/\ ~completed(state')
          /\ (/\ op' \in {"submit_candidate", "win"}
              /\ add_move(state).err = "none"
              /\ completed(add_move(state).state))
             => /\ op' = "win"
                /\ state' \in create_from_wordlist(state.lexigon.word_list)]_vars

\* a submission completed the puzzle and win replaced the state
C10_Witness ==
    /\ op = "win"
    /\ state.moves.moves = <<>>
    /\ current_points(state) = 0


\* the Move a successful add_move has just recorded
LastMove(self) == self.moves.moves[Len(self.moves.moves)]

NoRepeatedLetter(word) == Cardinality(Chars(word)) = Len(word)

\* C11 as stated: a recorded word of 6 letters, none repeated, is worth
\* ISOGRAM_BONUS points, and a recorded word of 4 letters that repeats a
\* letter is worth 1 point.
C11_SixLetterWordGetsBonus ==
    \A i \in DOMAIN state.moves.moves :
        LET m == state.moves.moves[i]
        IN  /\ (Len(m.word) = 6 /\ NoRepeatedLetter(m.word))
               => m.points = ISOGRAM_BONUS
            /\ (Len(m.word) = 4 /\ ~NoRepeatedLetter(m.word)) => m.points = 1

\* C11 amended: the bonus goes to the words of NUM_OPTIONAL_LETTERS + 1 = 7
\* letters, none repeated.  A successful add_move records the candidate with
\* ISOGRAM_BONUS points when it is such a word, and with its length minus
\* MIN_WORD_LENGTH plus 1 otherwise: 3 points for a word of 6 letters none
\* of which repeats, 1 point for a word of 4 letters.
C11_MoveScores ==
    [][(op' = "add_move" /\ err' = "none") =>
        LET w == state.candidate
            m == LastMove(state')
        IN  /\ m.word = w
            /\ (Len(w) = NUM_OPTIONAL_LETTERS + 1 /\ NoRepeatedLetter(w))
               => m.points = ISOGRAM_BONUS
            /\ ~(Len(w) = NUM_OPTIONAL_LETTERS + 1 /\ NoRepeatedLetter(w))
               => m.points = Len(w) - MIN_WORD_LENGTH + 1
            /\ (Len(w) = 6 /\ NoRepeatedLetter(w)) => m.points = 3
            /\ Len(w) = 4 => m.points = 1]_vars

\* a word of 6 letters, none repeated, was recorded after a word of 4
\* letters and after the isogram
C11_Witness ==
    /\ op = "add_move"
    /\ err = "none"
    /\ Len(LastMove(state).word) = 6
    /\ NoRepeatedLetter(LastMove(state).word)
    /\ \E i \in DOMAIN state.moves.moves : state.moves.moves[i].points = 1


\* C12: the order of the checks of solve.  An add_move whose candidate is not
\* contained in the ledger reports the first of (1) mandatory letter missing,
\* (2) letter outside the alphabet of the puzzle, (3) word not in the
\* Wordlist, (4) fewer than MIN_WORD_LENGTH letters that fails, whatever
\* later checks fail too, and records evaluate(candidate) points only when
\* all four pass.
C12_SolveOrder ==
    [][(op' = "add_move" /\ ~Moves_contains(state.moves, state.candidate)) =>
        LET w       == state.candidate
            lex     == state.lexigon
            missing == lex.mandatory_letter \notin Chars(w)
            outside == \E i \in DOMAIN w :
                           /\ w[i] # lex.mandatory_letter
                           /\ \A j \in DOMAIN lex.optional_letters :
                                  lex.optional_letters[j] # w[i]
            unknown == w \notin lex.word_list.words
            short   == Len(w) < MIN_WORD_LENGTH
        IN  /\ missing => err' = "MissingMandatoryLetter"
            /\ (~missing /\ outside) => err' = "DisallowedLetter"
            /\ (~missing /\ ~outside /\ unknown) => err' = "NotInWordlist"
            /\ (~missing /\ ~outside /\ ~unknown /\ short) => err' = "TooShort"
            /\ (missing \/ outside \/ unknown \/ short) => state' = state
            /\ (~missing /\ ~outside /\ ~unknown /\ ~short)
               => /\ err' = "none"
                  /\ LastMove(state') = Move(w, evaluate(lex, w))]_vars

\* a candidate that is too short, is not in the Wordlist and lacks the
\* mandatory letter was reported for the missing mandatory letter
C12_Witness ==
    /\ op = "add_move"
    /\ err = "MissingMandatoryLetter"
    /\ state.candidate # <<>>
    /\ Len(state.candidate) < MIN_WORD_LENGTH
    /\ state.candidate \notin state.lexigon.word_list.words


\* C13: hint progression.  A successful request_hint on a hint that is not
\* exhausted keeps the target word and reveals exactly one more letter; on an
\* exhausted hint it picks a target among the leftover words and reveals its
\* first letter.  A new target is chosen only when the hint is exhausted.
C13_HintProgression ==
    [][(op' = "request_hint" /\ err' = "none") =>
        IF state.hint.revealed < Len(state.hint.word)
        THEN /\ state'.hint.word = state.hint.word
             /\ state'.hint.revealed = state.hint.revealed + 1
        ELSE /\ state'.hint.word \in leftover_words(state)
             /\ state'.hint.word \in leftover_words(state')
             /\ state'.hint.revealed = 1]_vars

\* after the last move a target of 4 letters was revealed letter by letter
\* until exhausted, and the next request_hint picked a target anew
C13_Witness ==
    /\ op = "request_hint"
    /\ err = "none"
    /\ Len(state.moves.moves) = 2
    /\ state.moves.moves[1].points = 1
    /\ state.penalties = <<1, 2, 3, 4, 1>>
    /\ state.hint.revealed = 1

\* C14: hint bounds.  In every state 0 <= hint.revealed <= Len(hint.word),
\* and the rendered hint is the first hint.revealed letters of hint.word.
C14_HintBounds ==
    /\ 0 <= state.hint.revealed
    /\ state.hint.revealed <= Len(state.hint.word)
    /\ Len(Hint_repr(state.hint)) = state.hint.revealed
    /\ \A i \in 1..state.hint.revealed :
           Hint_repr(state.hint)[i] = state.hint.word[i]

\* a hint is fully revealed
C14_Witness ==
    /\ op = "request_hint"
    /\ err = "none"
    /\ state.hint.revealed = Len(state.hint.word)
    /\ state.hint.revealed >= MIN_WORD_LENGTH


\* C15: puzzle well-formedness.  The Lexigon of every state, after creation
\* and after every reset, has NUM_OPTIONAL_LETTERS distinct optional letters
\* and a mandatory letter not among them, which together are the letters of
\* one isogram of its Wordlist; the checks of the constructor pass.
C15_LexigonWellFormed ==
    LET lex == state.lexigon
    IN  /\ Lexigon_post_init(lex) = "none"
        /\ Len(lex.optional_letters) = NUM_OPTIONAL_LETTERS
        /\ Cardinality(Chars(lex.optional_letters)) = NUM_OPTIONAL_LETTERS
        /\ lex.mandatory_letter \notin Chars(lex.optional_letters)
        /\ \E iso \in lex.word_list.isograms :
               /\ Len(iso) = NUM_OPTIONAL_LETTERS + 1
               /\ Cardinality(Chars(iso)) = NUM_OPTIONAL_LETTERS + 1
               /\ Chars(iso) = Chars(lex.optional_letters) \cup {lex.mandatory_letter}

\* a reset on a Wordlist of two isograms made a letter mandatory that is the
\* first letter of neither
C15_Witness ==
    /\ op = "reset"
    /\ Cardinality(state.lexigon.word_list.isograms) = 2
    /\ \A iso \in state.lexigon.word_list.isograms :
           state.lexigon.mandatory_letter # iso[1]


\* C16: reset discards all progress and keeps the Wordlist.  The state a
\* reset returns has a Lexigon on the Wordlist of the state it was called on,
\* an empty candidate, an empty ledger, the hint ("", 0), no penalties (so no
\* points and no penalty) and max_points = min(max points of the new
\* Lexigon, MAX_POINTS).
C16_ResetDiscardsProgress ==
    [][op' = "reset" =>
        /\ state'.lexigon.word_list = state.lexigon.word_list
        /\ state'.candidate = <<>>
        /\ state'.moves.moves = <<>>
        /\ state'.moves.tree.children = <<>>
        /\ state'.hint.word = <<>>
        /\ state'.hint.revealed = 0
        /\ state'.penalties = <<>>
        /\ current_points(state') = 0
        /\ total_penalty(state') = 0
        /\ state'.max_points =
               Min(Lexigon_max_points(state'.lexigon), MAX_POINTS)]_vars

\* a reset created a puzzle whose words are worth more than MAX_POINTS
C16_Witness ==
    /\ op = "reset"
    /\ Lexigon_max_points(state.lexigon) > MAX_POINTS
    /\ state.max_points = MAX_POINTS
    /\ state.penalties = <<>>
    /\ state.moves.moves = <<>>


CandidateInAlphabet(self) ==
    \A i \in DOMAIN self.candidate :
        \/ self.candidate[i] = self.lexigon.mandatory_letter
        \/ \E j \in DOMAIN self.lexigon.optional_letters :
               self.lexigon.optional_letters[j] = self.candidate[i]

\* C17: candidate alphabet.  Under the handlers of the GameManager the
\* candidate of the held state has only letters of its Lexigon, mandatory or
\* optional; reset, win and every step that replaces the Lexigon or switches
\* the wordlist leave the candidate empty.
C17_CandidateAlphabet ==
    /\ CandidateInAlphabet(state)
    /\ [][/\ CandidateInAlphabet(state')
          /\ (\/ state'.lexigon # state.lexigon
              \/ op' \in {"reset", "win"}
              \/ (op' = "select_wordlist" /\ state' # state))
             => state'.candidate = <<>>]_vars

\* a candidate was typed with a letter that only one of the wordlists has
C17_Witness ==
    /\ op = "update_candidate"
    /\ Len(state.candidate) >= 2
    /\ "h" \in Chars(state.candidate)
    /\ "a" \in Chars(state.candidate)


\* C18: effects of a successful add_move.  It appends exactly one Move, the
\* candidate with evaluate of the candidate, after the moves already there,
\* empties the candidate, sets the hint to ("", 0) and keeps the lexigon and
\* the penalties; no call but reset lowers total_penalty.
C18_AddMoveEffects ==
    [][/\ (op' = "add_move" /\ err' = "none") =>
              /\ state'.moves.moves =
                     Append(state.moves.moves,
                            Move(state.candidate,
                                 evaluate(state.lexigon, state.candidate)))
              /\ state'.candidate = <<>>
              /\ state'.hint = Hint(<<>>, 0)
              /\ state'.lexigon = state.lexigon
              /\ state'.penalties = state.penalties
       /\ op' # "reset" => total_penalty(state') >= total_penalty(state)]_vars

\* a second word was found while penalties were on the books
C18_Witness ==
    /\ op = "add_move"
    /\ err = "none"
    /\ Len(state.moves.moves) >= 2
    /\ total_penalty(state) > 0

\* C19: escalating hint cost.  A successful request_hint appends exactly one
\* penalty, equal to the revealed count of the resulting hint, which is one
\* more than the letters of the target revealed before, and total_penalty
\* grows by it; add_letter and a failed request_hint append nothing.
C19_EscalatingCost ==
    [][/\ (op' = "request_hint" /\ err' = "none") =>
              /\ state'.penalties =
                     Append(state.penalties, state'.hint.revealed)
              /\ state'.hint.revealed =
                     (IF Hint_exhausted(state.hint)
                      THEN 0 ELSE state.hint.revealed) + 1
              /\ total_penalty(state') =
                     total_penalty(state) + state'.hint.revealed
       /\ (\/ op' = "add_letter"
           \/ (op' = "request_hint" /\ err' # "none")) =>
              state'.penalties = state.penalties]_vars

\* the third letter of one target was revealed, for three points
C19_Witness ==
    /\ op = "request_hint"
    /\ err = "none"
    /\ state.penalties = <<1, 2, 3>>
    /\ state.hint.revealed = 3

\* C20: the empty candidate.  add_move with an empty candidate fails with
\* DuplicateMoveError, whatever the moves, also with none, and not with a
\* ValidationError of solve; the state, its moves included, is kept.
C20_EmptyCandidateIsDuplicate ==
    [][(op' = "add_move" /\ state.candidate = <<>>) =>
           /\ err' = "DuplicateMoveError"
           /\ err' \notin ValidationErrors
           /\ state' = state]_vars

\* the empty candidate was submitted before any word was found
C20_Witness ==
    /\ op = "add_move"
    /\ err = "DuplicateMoveError"
    /\ state.candidate = <<>>
    /\ state.moves.moves = <<>>
    /\ state.moves.tree.children = <<>>


\* C21: max_points is positive.  Every reachable GameState has
\* max_points >= 1, so the ratio (current_points - total_penalty) / max_points
\* of the ProgressBar has a divisor other than zero: a state just created or
\* reset has max_points >= ISOGRAM_BONUS, and the max_points a successful
\* add_move computes counts at least the word just submitted.
C21_MaxPointsPositive ==
    /\ [](state.max_points >= 1)
    /\ [](op \in {"create_from_wordlist", "reset"}
             => state.max_points >= ISOGRAM_BONUS)
    /\ [][(op' = "add_move" /\ err' = "none") =>
              /\ state.candidate \in leftover_words(state)
              /\ state'.max_points >=
                     Min(evaluate(state.lexigon, state.candidate),
                         MAX_POINTS)]_vars

\* the last word left was found: max_points came down to its one point
C21_Witness ==
    /\ op = "add_move"
    /\ err = "none"
    /\ state.max_points = 1
    /\ leftover_words(state) = {}


\* C22: a hint points at a word not yet used.  In every reachable GameState
\* with hint.revealed > 0 the word of the hint is one of the leftover_words of
\* that state: a possible word of its Lexigon that the moves do not contain.
\* Every successful add_move and every reset leaves the hint at ("", 0).
C22_HintTargetsLeftover ==
    /\ [](state.hint.revealed > 0 =>
             /\ state.hint.word \in possible_words(state.lexigon)
             /\ ~Moves_contains(state.moves, state.hint.word)
             /\ state.hint.word \in leftover_words(state))
    /\ [][(\/ op' = "add_move" /\ err' = "none"
           \/ op' = "reset") => state'.hint = Hint(<<>>, 0)]_vars

\* a hint was asked for after a word was found that took possible words out
\* of the leftover ones
C22_Witness ==
    /\ op = "request_hint"
    /\ err = "none"
    /\ state.hint.revealed >= 2
    /\ state.moves.moves # <<>>
    /\ Cardinality(leftover_words(state)) + Len(state.moves.moves)
           < Cardinality(possible_words(state.lexigon))


\* C23: every Move counts, and the successes are bounded.  Every recorded
\* Move has points >= 1 and a word of possible_words; a successful add_move
\* makes current_points strictly larger and leftover_words strictly smaller;
\* the moves of one puzzle are never more than its possible_words, and once
\* no word is left over every add_move fails.
C23_MovesBounded ==
    /\ [](/\ \A i \in DOMAIN state.moves.moves :
                /\ state.moves.moves[i].points >= 1
                /\ state.moves.moves[i].word \in possible_words(state.lexigon)
          /\ Len(state.moves.moves) + Cardinality(leftover_words(state))
                 <= Cardinality(possible_words(state.lexigon)))
    /\ [][op' = "add_move" =>
              /\ err' = "none" =>
                     /\ current_points(state') > current_points(state)
                     /\ leftover_words(state') \subseteq leftover_words(state)
                     /\ leftover_words(state') # leftover_words(state)
              /\ leftover_words(state) = {} => err' # "none"]_vars

\* every possible word of the puzzle was found, three or more, and a further
\* add_move of a typed word failed
C23_Witness ==
    /\ op = "add_move"
    /\ err # "none"
    /\ state.candidate # <<>>
    /\ Len(state.moves.moves) = Cardinality(possible_words(state.lexigon))
    /\ Len(state.moves.moves) >= 3

====
